---- MODULE Spec2Model ----
(***************************************************************************)
(* The authorization layer of the to-do backend (auth.py) and the routes   *)
(* of app.py that it guards, as a state machine over one request at a      *)
(* time.                                                                   *)
(*                                                                         *)
(* Python values:                                                          *)
(*   - a str is a sequence of atoms (an atom stands for a run of           *)
(*     characters without whitespace, or for one whitespace character);    *)
(*   - an Optional value is None (<<>>) or Some(v) (<<v>>);                *)
(*   - a Mapping is a function whose DOMAIN is the set of keys present;    *)
(*   - the outcome of a call is Return(v) or Raise(exception).             *)
(***************************************************************************)
EXTENDS Integers, Sequences, FiniteSets, TLC

\* ------------------------------------------------------------------ bounds
MaxHeaderLen == 5       \* atoms in a header value, get_token_auth_header alone
MaxGateHeaderLen == 3   \* atoms in a header value, whole requests
MaxKeys == 2            \* keys in a fetched key set
MaxPerms == 2           \* entries of a permissions list, check_permissions alone
MaxIdLen == 2           \* atoms in a user id or a sub, check_user_id alone
MaxConcKeys == 1        \* keys in a fetched key set, requests served concurrently

\* ----------------------------------------------------------- python values
None == <<>>
Some(v) == <<v>>
Return(v) == [kind |-> "return", value |-> v]
Raise(e) == [kind |-> "raise", exc |-> e]
Range(s) == {s[n] : n \in DOMAIN s}

\* auth.py:15-23
AuthError(error, status_code) ==
    [type |-> "AuthError", error |-> error, status_code |-> status_code]

\* the exceptions of the libraries auth.py calls
JWTError == [type |-> "JWTError", error |-> "jose", status_code |-> 0]
URLError == [type |-> "URLError", error |-> "urlopen", status_code |-> 0]
JSONDecodeError == [type |-> "JSONDecodeError", error |-> "json.loads", status_code |-> 0]
KeyError == [type |-> "KeyError", error |-> "keys", status_code |-> 0]

\* what auth.py:86-88 can raise: the request fails, the body is not JSON, or
\* the document has no 'keys'
FetchErrors == {URLError, JSONDecodeError, KeyError}

\* the exceptions of the view bodies: abort(code) and the errors of Python
\* and of the database session
HTTPException(code) == [type |-> "HTTPException", error |-> "abort", status_code |-> code]
TypeError == [type |-> "TypeError", error |-> "unexpected keyword argument", status_code |-> 0]
AttributeError == [type |-> "AttributeError", error |-> "no attribute", status_code |-> 0]
IntegrityError == [type |-> "IntegrityError", error |-> "constraint", status_code |-> 0]

\* --------------------------------------------------------------- strings
Atoms == {" ", "Bearer", "bearer", "abc"}
GateAtoms == {" ", "Bearer", "abc"}     \* those used in whole requests
IsSpace(a) == a = " "

\* str.lower(), atom by atom
LowerAtom(a) == IF a = "Bearer" THEN "bearer" ELSE a
lower(s) == [n \in DOMAIN s |-> LowerAtom(s[n])]

\* split as str.split(' ') would: every single space separates, so that
\* neighbouring spaces and spaces at the ends give empty parts
RECURSIVE SplitOnEachSpaceFrom(_, _, _)
SplitOnEachSpaceFrom(s, word, parts) ==
    IF s = <<>> THEN Append(parts, word)
    ELSE IF IsSpace(Head(s))
         THEN SplitOnEachSpaceFrom(Tail(s), <<>>, Append(parts, word))
         ELSE SplitOnEachSpaceFrom(Tail(s), Append(word, Head(s)), parts)
SplitOnEachSpace(s) == SplitOnEachSpaceFrom(s, <<>>, <<>>)

\* str.split() without arguments: the maximal runs of non-whitespace
RECURSIVE SplitFrom(_, _, _)
SplitFrom(s, word, parts) ==
    IF s = <<>>
    THEN IF word = <<>> THEN parts ELSE Append(parts, word)
    ELSE IF IsSpace(Head(s))
         THEN SplitFrom(Tail(s), <<>>,
                        IF word = <<>> THEN parts ELSE Append(parts, word))
         ELSE SplitFrom(Tail(s), Append(word, Head(s)), parts)
split(s) == SplitFrom(s, <<>>, <<>>)

RECURSIVE StringsUpTo(_, _)
StringsUpTo(atoms, n) ==
    IF n = 0 THEN {<<>>}
    ELSE LET shorter == StringsUpTo(atoms, n - 1)
         IN  shorter \cup {Append(s, a) : s \in shorter, a \in atoms}

\* --------------------------------------------------------------- headers
\* request.headers is werkzeug's header mapping: names compare without case.
HeaderNames == {"Authorization", "AUTHORIZATION", "Accept"}
GateHeaderNames == {"Authorization", "Accept"}     \* those used in whole requests
LowerName(n) == IF n \in {"Authorization", "AUTHORIZATION"} THEN "authorization"
                ELSE IF n = "Accept" THEN "accept" ELSE n

\* the header mappings with at most one header
HeadersOf(names, values) ==
    {<<>>} \cup {[n \in {name} |-> v] : name \in names, v \in values}

\* the lookup of a plain dict: the name must match exactly
HeadersGetExactCase(headers, name) ==
    IF name \in DOMAIN headers THEN Some(headers[name]) ELSE None

\* request.headers.get(name)
HeadersGet(headers, name) ==
    LET found == {n \in DOMAIN headers : LowerName(n) = LowerName(name)}
    IN  IF found = {} THEN None ELSE Some(headers[CHOOSE n \in found : TRUE])

\* Python truthiness of an Optional[str]: None and '' are falsy
Truthy(opt) == opt # None /\ opt[1] # <<>>
Or(a, b) == IF Truthy(a) THEN a ELSE b

\* the same for an Optional[bool]: None and False are falsy
OrBool(a, b) == IF a # None /\ a[1] THEN a ELSE b

\* get_token_auth_header without its test for None: a missing header is
\* reported like an empty one
get_token_auth_header_NoNoneTest(headers) ==
    LET header == Or(HeadersGet(headers, "Authorization"),
                     HeadersGet(headers, "authorization"))
        split_header == IF header = None THEN <<>> ELSE split(header[1])
    IN  IF Len(split_header) # 2 \/ lower(split_header[1]) # <<"bearer">>
        THEN Raise(AuthError("Malformed Authorization header", 401))
        ELSE Return(split_header[2])

\* auth.py:26-39
get_token_auth_header(headers) ==
    LET header == Or(HeadersGet(headers, "Authorization"),
                     HeadersGet(headers, "authorization"))
    IN  IF header = None
        THEN Raise(AuthError("Authorization header missing", 401))
        ELSE LET split_header == split(header[1])
             IN  IF Len(split_header) # 2 \/ lower(split_header[1]) # <<"bearer">>
                 THEN Raise(AuthError("Malformed Authorization header", 401))
                 ELSE Return(split_header[2])

\* ---------------------------------------------------------------- claims
\* the permissions of the two roles (test_auth.py:14-15)
ManagerRole == <<"read:all-users", "read:own-todos", "read:own-user",
                 "write:all-users", "write:own-todos", "write:own-user">>
UserRole == <<"read:own-todos", "read:own-user", "write:own-todos", "write:own-user">>
PermissionNames == Range(ManagerRole)

UserIds == {<<"auth0|abc">>, <<"auth0|xyz">>}

\* decoded payloads: `permissions` and `sub` are each present or absent
PayloadsOf(lists, subs) ==
    {p @@ s : p \in {<<>>} \cup {[permissions |-> l] : l \in lists},
              s \in {<<>>} \cup {[sub |-> u] : u \in subs}}

GatePayloads == PayloadsOf({<<>>, UserRole, ManagerRole}, UserIds)

\* Mapping.get(key)
MappingGet(m, key) == IF key \in DOMAIN m THEN Some(m[key]) ELSE None

\* check_permissions reading the field as payload.get('permissions', [])
check_permissions_DefaultEmpty(permission, payload) ==
    LET payload_permissions ==
            IF "permissions" \in DOMAIN payload THEN payload.permissions ELSE <<>>
    IN  IF permission \notin Range(payload_permissions)
        THEN Raise(AuthError("Payload does not include the " \o permission
                             \o " permission", 401))
        ELSE Return(TRUE)

\* check_permissions testing only that the list has entries
check_permissions_AnyPermission(permission, payload) ==
    LET payload_permissions == MappingGet(payload, "permissions")
    IN  IF payload_permissions = None
        THEN Raise(AuthError("Permissions missing from payload", 401))
        ELSE IF payload_permissions[1] = <<>>
             THEN Raise(AuthError("Payload does not include the " \o permission
                                  \o " permission", 401))
             ELSE Return(TRUE)

\* auth.py:42-57
check_permissions(permission, payload) ==
    LET payload_permissions == MappingGet(payload, "permissions")
    IN  IF payload_permissions = None
        THEN Raise(AuthError("Permissions missing from payload", 401))
        ELSE IF permission \notin Range(payload_permissions[1])
             THEN Raise(AuthError("Payload does not include the " \o permission
                                  \o " permission", 401))
             ELSE Return(TRUE)

\* the characters of a str, for use inside a message
RECURSIVE Text(_)
Text(s) == IF s = <<>> THEN "" ELSE Head(s) \o Text(Tail(s))

\* check_user_id comparing with payload_subject.startswith(user_id)
check_user_id_StartsWith(user_id, payload) ==
    LET payload_subject == MappingGet(payload, "sub")
    IN  IF payload_subject = None
        THEN Raise(AuthError("Subject missing from payload", 401))
        ELSE IF \/ Len(payload_subject[1]) < Len(user_id)
                \/ SubSeq(payload_subject[1], 1, Len(user_id)) # user_id
             THEN Raise(AuthError("Request is not autheticated by user with id \""
                                  \o Text(user_id) \o "\"", 401))
             ELSE Return(TRUE)

\* auth.py:60-75
check_user_id(user_id, payload) ==
    LET payload_subject == MappingGet(payload, "sub")
    IN  IF payload_subject = None
        THEN Raise(AuthError("Subject missing from payload", 401))
        ELSE IF user_id # payload_subject[1]
             THEN Raise(AuthError("Request is not autheticated by user with id \""
                                  \o Text(user_id) \o "\"", 401))
             ELSE Return(TRUE)

\* ---------------------------------------------------------------- routes
\* app.py: the nine view functions and their decorators
Endpoints == {"get_all_users", "get_user", "put_user", "patch_user", "delete_user",
              "get_todos", "post_todo", "patch_todo", "delete_todo"}

\* the argument of @requires_auth_permission on each view
Permission(e) ==
    CASE e = "get_all_users" -> "read:all-users"
      [] e = "get_user" -> "read:own-user"
      [] e \in {"put_user", "patch_user", "delete_user"} -> "write:own-user"
      [] e = "get_todos" -> "read:own-todos"
      [] e \in {"post_todo", "patch_todo", "delete_todo"} -> "write:own-todos"

\* the decorators with @requires_auth_user() left off patch_todo
RequiresAuthUserButPatchTodo(e) == e \notin {"get_all_users", "patch_todo"}

\* the views decorated with @requires_auth_user()
RequiresAuthUser(e) == e # "get_all_users"

\* the routes with <string:user_id> in their rule
HasUserId(e) == e # "get_all_users"

\* the routes with <int:todo_id> in their rule
HasTodoId(e) == e \in {"patch_todo", "delete_todo"}

\* the requests the router hands to a view: the variables of the matched
\* rule, the headers and request.json (None when the body is not JSON)
RequestsOf(endpoints, userIds, todoIds, headers, bodies) ==
    {[endpoint |-> e, user_id |-> u, todo_id |-> t, headers |-> h, json |-> b] :
        e \in endpoints, u \in {None} \cup {Some(id) : id \in userIds},
        t \in {None} \cup {Some(id) : id \in todoIds}, h \in headers, b \in bodies}

GateTodoIds == {1}

Requests(headerNames, headerValues) ==
    RequestsOf(Endpoints, UserIds, GateTodoIds, HeadersOf(headerNames, headerValues),
               {None})

WellRouted(r) ==
    /\ (r.user_id # None) <=> HasUserId(r.endpoint)
    /\ (r.todo_id # None) <=> HasTodoId(r.endpoint)

\* request.view_args, the keyword arguments flask calls the view with
ViewArgs(r) ==
    (IF r.user_id = None THEN <<>> ELSE [user_id |-> r.user_id[1]])
    @@ (IF r.todo_id = None THEN <<>> ELSE [todo_id |-> r.todo_id[1]])

\* ----------------------------------------------------------------- keys
Keys == {"key1", "key2"}

RECURSIVE KeySetsUpTo(_)
KeySetsUpTo(n) ==
    IF n = 0 THEN {<<>>}
    ELSE LET shorter == KeySetsUpTo(n - 1)
         IN  shorter \cup {Append(s, k) : s \in shorter, k \in Keys}

\* what jwt.decode(token, algorithms=ALGORITHMS, audience=API_AUDIENCE, key=key)
\* can do: return the claims or raise JWTError
DecodeOutcomes(payloads) == {Return(c) : c \in payloads} \cup {Raise(JWTError)}

\* ---------------------------------------------------------------- state
VARIABLES
    pc,         \* where the request is: "idle", a stage, "raised", "responded"
    request,    \* the request being served
    token,      \* auth.py:110  Optional
    keys,       \* auth.py:86-88  Optional sequence of keys
    key_index,  \* the position of the for loop of auth.py:89
    jwt_decode, \* key -> what jwt.decode gives for (token, key) in this request
    payload,    \* auth.py:111  Optional claims
    error,      \* the exception propagating out of the view, Optional
    invoked,    \* the arguments the view body was called with, Optional
    response,   \* the response, Optional
    calls,      \* the functions called for this request, in order
    tried,      \* the keys handed to jwt.decode for this request, in order
    args,       \* the positional arguments of the innermost call so far
    kwargs,     \* its keyword arguments
    users,      \* the users table: id -> row
    todos,      \* the todos table: id -> row
    waiting     \* the requests being served by other threads, each with the
                \* values of its own variables

vars == <<pc, request, token, keys, key_index, jwt_decode, payload, error,
          invoked, response, calls, tried, args, kwargs, users, todos, waiting>>

NoRequest == [endpoint |-> "get_all_users", user_id |-> None, todo_id |-> None,
              headers |-> <<>>, json |-> None]

\* the variables of one request, as a record
Context(pc_, r_, t_, ks_, ki_, jd_, p_, e_, inv_, resp_, calls_, tried_, args_, kw_) ==
    [pc |-> pc_, request |-> r_, token |-> t_, keys |-> ks_,
     key_index |-> ki_, jwt_decode |-> jd_, payload |-> p_,
     error |-> e_, invoked |-> inv_, response |-> resp_,
     calls |-> calls_, tried |-> tried_, args |-> args_, kwargs |-> kw_]

\* a request on which nothing has run yet
FreshContext(r, stage) ==
    Context(stage, r, None, None, 0, <<>>, None, None, None, None, <<>>, <<>>,
            <<>>, ViewArgs(r))

\* a request whose token has been verified as payload p under the one key
VerifiedContext(r, p, stage, calls_, args_) ==
    Context(stage, r, Some(<<"abc">>), Some(<<"key1">>), 1, ("key1" :> Return(p)),
            Some(p), None, None, None, calls_, <<"key1">>, args_, ViewArgs(r))

Running ==
    Context(pc, request, token, keys, key_index, jwt_decode, payload, error,
            invoked, response, calls, tried, args, kwargs)

\* the running request is c
Runs(c) ==
    /\ pc = c.pc
    /\ request = c.request
    /\ token = c.token
    /\ keys = c.keys
    /\ key_index = c.key_index
    /\ jwt_decode = c.jwt_decode
    /\ payload = c.payload
    /\ error = c.error
    /\ invoked = c.invoked
    /\ response = c.response
    /\ calls = c.calls
    /\ tried = c.tried
    /\ args = c.args
    /\ kwargs = c.kwargs

NoRows == <<>>

Fresh(r, stage) ==
    /\ Runs(FreshContext(r, stage))
    /\ users = NoRows
    /\ todos = NoRows
    /\ waiting = <<>>

\* ------------------------------------------------------------ request.json
\* a JSON document: an object (dict) with its fields or an array (list)
\* with its items
Dict(m) == [type |-> "dict", value |-> m]
List(l) == [type |-> "list", items |-> l]
NoFields == [k \in {} |-> None]
IsDict(j) == j.type = "dict"
IsList(j) == j.type = "list"

\* the characters [\w\d_] of the e-mail pattern, among those used here
WordAtoms == {"a", "b", "x", "y"}

\* s is: word characters, @, word characters, a dot, word characters
EmailShape(s) ==
    \E i, j \in DOMAIN s :
        /\ s[i] = "@"
        /\ s[j] = "."
        /\ 1 < i
        /\ i + 1 < j
        /\ j < Len(s)
        /\ \A n \in DOMAIN s \ {i, j} : s[n] \in WordAtoms

\* match('^[\w\d_]+@[\w\d_]+\.[\w\d_]+$', email): $ also matches before a
\* newline that ends the string
match(email) ==
    \/ EmailShape(email)
    \/ /\ email # <<>>
       /\ email[Len(email)] = "\n"
       /\ EmailShape(SubSeq(email, 1, Len(email) - 1))

\* ------------------------------------------------------------- models.py
\* models.py:25-27: User.__init__(self, name, email) takes these keyword
\* arguments and no other
User(kw) == IF DOMAIN kw = {"name", "email"} THEN Return(kw) ELSE Raise(TypeError)

\* models.py:117-119: Todo.__init__(self, title, done)
Todo(kw) == IF DOMAIN kw = {"title", "done"} THEN Return(kw) ELSE Raise(TypeError)

\* what a view gives: what it returns or raises, and the tables it leaves
Result(res, us, ts) == [result |-> res, users |-> us, todos |-> ts]
Abort(code) == Result(Raise(HTTPException(code)), users, todos)
Fail(exc) == Result(Raise(exc), users, todos)
Jsonify(status, body, us, ts) ==
    Result(Return([status |-> status, body |-> body]), us, ts)

\* User.query.get(user_id)
UserQueryGet(user_id) ==
    IF user_id \in DOMAIN users
    THEN Some([id |-> user_id, name |-> Some(users[user_id].name),
               email |-> Some(users[user_id].email)])
    ELSE None

\* Todo.query.get(todo_id)
TodoQueryGet(todo_id) ==
    IF todo_id \in DOMAIN todos
    THEN Some([id |-> todo_id, owner_id |-> todos[todo_id].owner_id,
               title |-> todos[todo_id].title, done |-> todos[todo_id].done])
    ELSE None

\* models.py:76-87 and 128-139
UserJson(user) == [id |-> user.id, name |-> user.name[1], email |-> user.email[1]]
TodoJson(id) == [id |-> id, title |-> todos[id].title, done |-> todos[id].done]

\* models.py:43-57: add and commit; a row that breaks NOT NULL or UNIQUE is
\* rolled back and the error raised again
UserPersist(user) ==
    IF \/ user.name = None
       \/ user.email = None
       \/ \E other \in DOMAIN users \ {user.id} : users[other].email = user.email[1]
    THEN Fail(IntegrityError)
    ELSE Result(Return(user),
                (user.id :> [name |-> user.name[1], email |-> user.email[1]]) @@ users,
                todos)

\* delete() answering True without deleting the row
UserDelete_KeepsRow(user) == Result(Return(TRUE), users, todos)

\* models.py:59-74: the row is deleted; the todos of the user (relationship
\* without cascade, models.py:41) are kept with owner_id set to NULL
UserDelete(user) ==
    Result(Return(TRUE),
           [id \in DOMAIN users \ {user.id} |-> users[id]],
           [t \in DOMAIN todos |->
               IF todos[t].owner_id = Some(user.id)
               THEN [todos[t] EXCEPT !.owner_id = None] ELSE todos[t]])

\* todo.json of a todo object (models.py:128-139)
TodoObjectJson(todo) == [id |-> todo.id, title |-> todo.title, done |-> todo.done]

\* Todo.persist(), called at app.py:224 and tested at test_models.py:89-108,
\* is not defined in models.py; as User.persist does for a user, it adds the
\* todo to the session and commits it
TodoPersist(todo) ==
    Result(Return(todo), users,
           (todo.id :> [owner_id |-> todo.owner_id, title |-> todo.title,
                        done |-> todo.done]) @@ todos)

\* Todo.delete(), called at app.py:244 and tested at test_app.py:446-465, is
\* not defined in models.py; as User.delete does for a user, it deletes the
\* row and returns True
TodoDelete(todo) ==
    Result(Return(TRUE), users, [t \in DOMAIN todos \ {todo.id} |-> todos[t]])

\* ----------------------------------------------------- app.py, the views
\* app.py:17-30
get_all_users(token_payload) ==
    Jsonify(200, [success |-> TRUE,
                  users |-> {UserJson(UserQueryGet(id)[1]) : id \in DOMAIN users}],
            users, todos)

\* app.py:33-50
get_user(token_payload, user_id) ==
    LET user == UserQueryGet(user_id)
    IN  IF user = None THEN Abort(404)
        ELSE Jsonify(200, [success |-> TRUE, user |-> UserJson(user[1])], users, todos)

\* app.py:53-73
put_user(token_payload, user_id) ==
    LET user_check == UserQueryGet(user_id)
    IN  IF user_check # None THEN Abort(409)
        ELSE IF request.json = None \/ ~IsDict(request.json[1]) THEN Fail(AttributeError)
        ELSE LET name == MappingGet(request.json[1].value, "name")
                 email == MappingGet(request.json[1].value, "email")
                 user == User([id |-> user_id, name |-> name, email |-> email])
             IN  IF user.kind = "raise" THEN Fail(user.exc)
                 ELSE LET persisted == UserPersist(user.value)
                      IN  IF persisted.result.kind = "raise" THEN persisted
                          ELSE Jsonify(201, [success |-> TRUE,
                                             user |-> UserJson(persisted.result.value)],
                                       persisted.users, persisted.todos)

\* patch_user inserting the user when there is none with that id
patch_user_Upsert(token_payload, user_id) ==
    IF request.json = None THEN Abort(415)
    ELSE IF ~IsDict(request.json[1]) THEN Fail(AttributeError)
    ELSE LET name == MappingGet(request.json[1].value, "name")
             email == MappingGet(request.json[1].value, "email")
             user == UserQueryGet(user_id)
             old == IF user = None THEN [name |-> Some(<<"Ann">>), email |-> email]
                    ELSE user[1]
         IN  IF name = None /\ email = None THEN Abort(400)
             ELSE IF email # None /\ ~match(email[1]) THEN Abort(400)
             ELSE LET persisted == UserPersist([id |-> user_id,
                                                name |-> Or(name, old.name),
                                                email |-> Or(email, old.email)])
                  IN  IF persisted.result.kind = "raise" THEN persisted
                      ELSE Jsonify(200, [success |-> TRUE,
                                         user |-> UserJson(persisted.result.value)],
                                   persisted.users, persisted.todos)

\* app.py:76-110
patch_user(token_payload, user_id) ==
    IF request.json = None THEN Abort(415)
    ELSE IF ~IsDict(request.json[1]) THEN Fail(AttributeError)
    ELSE LET name == MappingGet(request.json[1].value, "name")
             email == MappingGet(request.json[1].value, "email")
             user == UserQueryGet(user_id)
         IN  IF name = None /\ email = None THEN Abort(400)
             ELSE IF email # None /\ ~match(email[1]) THEN Abort(400)
             ELSE IF user = None THEN Abort(404)
             ELSE LET persisted == UserPersist([id |-> user_id,
                                                name |-> Or(name, user[1].name),
                                                email |-> Or(email, user[1].email)])
                  IN  IF persisted.result.kind = "raise" THEN persisted
                      ELSE Jsonify(200, [success |-> TRUE,
                                         user |-> UserJson(persisted.result.value)],
                                   persisted.users, persisted.todos)

\* app.py:113-134
delete_user(token_payload, user_id) ==
    LET user == UserQueryGet(user_id)
    IN  IF user = None THEN Abort(404)
        ELSE LET success == UserDelete(user[1])
             IN  IF success.result.value
                 THEN Jsonify(200, [success |-> TRUE], success.users, success.todos)
                 ELSE Abort(500)

\* app.py:137-155
get_todos(token_payload, user_id) ==
    LET user == UserQueryGet(user_id)
    IN  IF user = None THEN Abort(404)
        ELSE Jsonify(200, [success |-> TRUE, user_id |-> user_id,
                           todos |-> {TodoJson(t) : t \in {t \in DOMAIN todos :
                                                   todos[t].owner_id = Some(user_id)}}],
                     users, todos)

\* post_todo with a constructor that takes owner_id: the first item is
\* committed before the next one is looked at
post_todo_CommitsEachItem(token_payload, user_id) ==
    IF request.json = None THEN Abort(415)
    ELSE IF ~IsList(request.json[1]) \/ Len(request.json[1].items) = 0 THEN Abort(400)
    ELSE IF user_id \notin DOMAIN users THEN Abort(404)
    ELSE LET items == request.json[1].items
             todo == items[1]
             id == CHOOSE n \in 1..(Cardinality(DOMAIN todos) + 1) : n \notin DOMAIN todos
             stored == (id :> [owner_id |-> Some(user_id), title |-> todo.value.title,
                               done |-> OrBool(MappingGet(todo.value, "done"),
                                               Some(FALSE))[1]]) @@ todos
         IN  IF "title" \notin DOMAIN todo.value THEN Abort(400)
             ELSE IF \E n \in DOMAIN items : "title" \notin DOMAIN items[n].value
             THEN Result(Raise(HTTPException(400)), users, stored)
             ELSE Jsonify(200, [success |-> TRUE, user_id |-> user_id], users, stored)

\* app.py:158-193.  Every path through the first turn of the loop leaves the
\* view: the title is missing (abort) or Todo(owner_id=...) raises, the
\* constructor of models.py:117 taking title and done only.
post_todo(token_payload, user_id) ==
    IF request.json = None THEN Abort(415)
    ELSE IF ~IsList(request.json[1]) \/ Len(request.json[1].items) = 0 THEN Abort(400)
    ELSE IF user_id \notin DOMAIN users THEN Abort(404)
    ELSE LET todo == request.json[1].items[1]
         IN  IF ~IsDict(todo) THEN Fail(AttributeError)
             ELSE LET done == OrBool(MappingGet(todo.value, "done"), Some(FALSE))
                      title == MappingGet(todo.value, "title")
                      new_todo == Todo([owner_id |-> user_id, title |-> title,
                                        done |-> done])
                  IN  IF title = None THEN Abort(400) ELSE Fail(new_todo.exc)

\* app.py:196-229: `new or old` keeps the old value when the new one is
\* absent or falsy
patch_todo(token_payload, user_id, todo_id) ==
    LET todo == TodoQueryGet(todo_id)
    IN  IF todo = None THEN Abort(404)
        ELSE IF request.json = None THEN Abort(415)
        ELSE IF ~IsDict(request.json[1]) THEN Abort(400)
        ELSE LET new_title == MappingGet(request.json[1].value, "title")
                 new_done == MappingGet(request.json[1].value, "done")
                 patched == [todo[1] EXCEPT
                                !.title = Or(new_title, Some(todo[1].title))[1],
                                !.done = OrBool(new_done, Some(todo[1].done))[1]]
                 persisted == TodoPersist(patched)
             IN  IF new_title = None /\ new_done = None THEN Abort(400)
                 ELSE Jsonify(200, [success |-> TRUE, user_id |-> patched.owner_id,
                                    todo |-> TodoObjectJson(patched)],
                              persisted.users, persisted.todos)

\* app.py:232-250
delete_todo(token_payload, user_id, todo_id) ==
    LET todo == TodoQueryGet(todo_id)
    IN  IF todo = None THEN Abort(404)
        ELSE LET success == TodoDelete(todo[1])
             IN  IF success.result.value
                 THEN Jsonify(200, [success |-> TRUE], success.users, success.todos)
                 ELSE Abort(500)

\* the view function of an endpoint, called as f(*args, **kwargs)
View(endpoint, a, kw) ==
    CASE endpoint = "get_all_users" -> get_all_users(a[1])
      [] endpoint = "get_user" -> get_user(a[1], kw.user_id)
      [] endpoint = "put_user" -> put_user(a[1], kw.user_id)
      [] endpoint = "patch_user" -> patch_user(a[1], kw.user_id)
      [] endpoint = "delete_user" -> delete_user(a[1], kw.user_id)
      [] endpoint = "get_todos" -> get_todos(a[1], kw.user_id)
      [] endpoint = "post_todo" -> post_todo(a[1], kw.user_id)
      [] endpoint = "patch_todo" -> patch_todo(a[1], kw.user_id, kw.todo_id)
      [] endpoint = "delete_todo" -> delete_todo(a[1], kw.user_id, kw.todo_id)

\* app.py:253-298: the error handlers
ErrorResponse(status, message) ==
    [status |-> status, body |-> [success |-> FALSE, message |-> message]]

\* the handler for AuthError answering with the exception's own message
handle_error_EchoesAuthError(e) ==
    IF e.type = "AuthError" THEN ErrorResponse(e.status_code, e.error)
    ELSE IF e.type = "HTTPException" /\ e.status_code \in {400, 404, 409, 415}
    THEN ErrorResponse(e.status_code, "error")
    ELSE ErrorResponse(500, "Internal error")

\* the handler for AuthError answering 403
handle_error_Forbidden(e) ==
    IF e.type = "AuthError" THEN ErrorResponse(403, "Not authorized")
    ELSE IF e.type = "HTTPException" /\ e.status_code \in {400, 404, 409, 415}
    THEN ErrorResponse(e.status_code, "error")
    ELSE ErrorResponse(500, "Internal error")

handle_error(e) ==
    IF e.type = "AuthError" THEN ErrorResponse(401, "Not authorized")
    ELSE IF e.type = "HTTPException" /\ e.status_code = 400
    THEN ErrorResponse(400, "Invalid request")
    ELSE IF e.type = "HTTPException" /\ e.status_code = 404
    THEN ErrorResponse(404, "Resource not found")
    ELSE IF e.type = "HTTPException" /\ e.status_code = 409
    THEN ErrorResponse(409, "Conflict")
    ELSE IF e.type = "HTTPException" /\ e.status_code = 415
    THEN ErrorResponse(415, "Invalid content type")
    ELSE ErrorResponse(500, "Internal error")

\* ---------------------------------------------------------------- steps
Init == Fresh(NoRequest, "idle")

\* flask dispatches a request to its view: the outermost wrapper starts
ReceiveFrom(requests) ==
    /\ pc = "idle"
    /\ \E r \in requests :
          /\ WellRouted(r)
          /\ pc' = "get_token_auth_header"
          /\ request' = r
          /\ kwargs' = ViewArgs(r)
    /\ token' = None
    /\ keys' = None
    /\ key_index' = 0
    /\ jwt_decode' = <<>>
    /\ payload' = None
    /\ error' = None
    /\ invoked' = None
    /\ response' = None
    /\ calls' = <<>>
    /\ tried' = <<>>
    /\ args' = <<>>
    /\ UNCHANGED <<users, todos, waiting>>

Receive == ReceiveFrom(Requests(GateHeaderNames, StringsUpTo(GateAtoms, MaxGateHeaderLen)))

\* auth.py:110
GetTokenAuthHeader ==
    /\ pc = "get_token_auth_header"
    /\ calls' = Append(calls, "get_token_auth_header")
    /\ LET r == get_token_auth_header(request.headers)
       IN  IF r.kind = "raise"
           THEN /\ error' = Some(r.exc)
                /\ pc' = "raised"
                /\ token' = token
           ELSE /\ token' = Some(r.value)
                /\ pc' = "urlopen"
                /\ error' = error
    /\ UNCHANGED <<request, keys, key_index, jwt_decode, payload, invoked,
                   response, tried,
                   args, kwargs, users, todos, waiting>>

\* auth.py:86-88: the fetch of the key set, or its failure.  What jwt.decode
\* gives for this token under each fetched key is fixed from here on.
UrlopenFrom(keySets, payloads) ==
    /\ pc = "urlopen"
    /\ calls' = Append(calls, "urlopen")
    /\ \/ \E ks \in keySets :
             /\ keys' = Some(ks)
             /\ jwt_decode' \in [Range(ks) -> DecodeOutcomes(payloads)]
             /\ key_index' = 1
             /\ pc' = "for_key"
             /\ error' = error
       \/ \E e \in FetchErrors :
             /\ error' = Some(e)
             /\ pc' = "raised"
             /\ UNCHANGED <<keys, key_index, jwt_decode>>
    /\ UNCHANGED <<request, token, payload, invoked, response, tried,
                   args, kwargs, users, todos, waiting>>

\* verify_decode_jwt with the fetch inside try: ... except Exception: pass, so
\* that a failed fetch ends at the raise of auth.py:95
UrlopenFailureIsInvalidToken ==
    /\ pc = "urlopen"
    /\ calls' = Append(calls, "urlopen")
    /\ \/ \E ks \in KeySetsUpTo(MaxKeys) :
             /\ keys' = Some(ks)
             /\ jwt_decode' \in [Range(ks) -> DecodeOutcomes(GatePayloads)]
             /\ key_index' = 1
             /\ pc' = "for_key"
             /\ error' = error
       \/ /\ error' = Some(AuthError("Invalid token", 401))
          /\ pc' = "raised"
          /\ UNCHANGED <<keys, key_index, jwt_decode>>
    /\ UNCHANGED <<request, token, payload, invoked, response, tried,
                   args, kwargs, users, todos, waiting>>

Urlopen == UrlopenFrom(KeySetsUpTo(MaxKeys), GatePayloads)

\* the loop without the return of auth.py:92: the claims are kept and the
\* next key is tried
JwtDecodeKeepsGoing ==
    /\ pc = "for_key"
    /\ key_index <= Len(keys[1])
    /\ LET key == keys[1][key_index]
           claims == jwt_decode[key]
       IN  /\ calls' = Append(calls, "jwt.decode")
           /\ tried' = Append(tried, key)
           /\ payload' = IF claims.kind = "return" THEN Some(claims.value) ELSE payload
           /\ IF key_index = Len(keys[1]) /\ payload' # None
              THEN /\ pc' = "check_permissions"
                   /\ key_index' = key_index
              ELSE /\ key_index' = key_index + 1
                   /\ pc' = pc
    /\ UNCHANGED <<request, token, keys, jwt_decode, error, invoked, response,
                   args, kwargs, users, todos, waiting>>

\* the loop raising from its except clause: only the first key is tried
JwtDecodeFirstKeyOnly ==
    /\ pc = "for_key"
    /\ key_index <= Len(keys[1])
    /\ LET key == keys[1][key_index]
           claims == jwt_decode[key]
       IN  /\ calls' = Append(calls, "jwt.decode")
           /\ tried' = Append(tried, key)
           /\ IF claims.kind = "return"
              THEN /\ payload' = Some(claims.value)
                   /\ pc' = "check_permissions"
                   /\ error' = error
              ELSE /\ error' = Some(AuthError("Invalid token", 401))
                   /\ pc' = "raised"
                   /\ payload' = payload
    /\ UNCHANGED <<request, token, keys, key_index, jwt_decode, invoked, response,
                   args, kwargs, users, todos, waiting>>

\* auth.py:89-94: one iteration of the loop over the keys
JwtDecode ==
    /\ pc = "for_key"
    /\ key_index <= Len(keys[1])
    /\ LET key == keys[1][key_index]
           claims == jwt_decode[key]
       IN  /\ calls' = Append(calls, "jwt.decode")
           /\ tried' = Append(tried, key)
           /\ IF claims.kind = "return"
              THEN /\ payload' = Some(claims.value)
                   /\ pc' = "check_permissions"
                   /\ key_index' = key_index
              ELSE /\ key_index' = key_index + 1
                   /\ UNCHANGED <<payload, pc>>
    /\ UNCHANGED <<request, token, keys, jwt_decode, error, invoked, response,
                   args, kwargs, users, todos, waiting>>

\* verify_decode_jwt without its last line: it returns an empty mapping
InvalidTokenFallsThrough ==
    /\ pc = "for_key"
    /\ key_index > Len(keys[1])
    /\ payload' = Some(<<>>)
    /\ pc' = "check_permissions"
    /\ UNCHANGED <<request, token, keys, key_index, jwt_decode, error, invoked,
                   response, calls, tried,
                   args, kwargs, users, todos, waiting>>

\* auth.py:95: the loop ended without a return
InvalidToken ==
    /\ pc = "for_key"
    /\ key_index > Len(keys[1])
    /\ error' = Some(AuthError("Invalid token", 401))
    /\ pc' = "raised"
    /\ UNCHANGED <<request, token, keys, key_index, jwt_decode, payload, invoked,
                   response, calls, tried,
                   args, kwargs, users, todos, waiting>>

\* the wrapper going on whatever check_permissions says
CheckPermissionsIgnored ==
    /\ pc = "check_permissions"
    /\ calls' = Append(calls, "check_permissions")
    /\ pc' = IF RequiresAuthUser(request.endpoint) THEN "check_user_id" ELSE "handler"
    /\ args' = <<payload[1]>> \o args
    /\ UNCHANGED <<request, token, keys, key_index, jwt_decode, payload, error,
                   invoked, response, tried, kwargs, users, todos, waiting>>

\* the wrapper calling f(*args, **kwargs), without the payload
CheckPermissionsDropsPayload ==
    /\ pc = "check_permissions"
    /\ calls' = Append(calls, "check_permissions")
    /\ LET r == check_permissions(Permission(request.endpoint), payload[1])
       IN  IF r.kind = "raise"
           THEN /\ error' = Some(r.exc)
                /\ pc' = "raised"
           ELSE /\ error' = error
                /\ pc' = IF RequiresAuthUser(request.endpoint)
                         THEN "check_user_id" ELSE "handler"
    /\ UNCHANGED <<request, token, keys, key_index, jwt_decode, payload, invoked,
                   response, tried, args, kwargs, users, todos, waiting>>

\* the decorators in the other order: the sub is compared with the path
\* user_id before the permission is looked for
CheckPermissionsAfterUserId ==
    /\ pc = "check_permissions"
    /\ calls' = Append(calls, "check_permissions")
    /\ LET u == IF RequiresAuthUser(request.endpoint)
                THEN check_user_id(kwargs.user_id, payload[1]) ELSE Return(TRUE)
           r == IF u.kind = "raise" THEN u
                ELSE check_permissions(Permission(request.endpoint), payload[1])
       IN  IF r.kind = "raise"
           THEN /\ error' = Some(r.exc)
                /\ pc' = "raised"
                /\ args' = args
           ELSE /\ error' = error
                /\ pc' = IF RequiresAuthUser(request.endpoint)
                         THEN "check_user_id" ELSE "handler"
                /\ args' = <<payload[1]>> \o args
    /\ UNCHANGED <<request, token, keys, key_index, jwt_decode, payload, invoked,
                   response, tried, kwargs, users, todos, waiting>>

\* auth.py:112-113: check_permissions, then f(payload, *args, **kwargs)
CheckPermissions ==
    /\ pc = "check_permissions"
    /\ calls' = Append(calls, "check_permissions")
    /\ LET r == check_permissions(Permission(request.endpoint), payload[1])
       IN  IF r.kind = "raise"
           THEN /\ error' = Some(r.exc)
                /\ pc' = "raised"
                /\ args' = args
           ELSE /\ error' = error
                /\ pc' = IF RequiresAuthUser(request.endpoint)
                         THEN "check_user_id" ELSE "handler"
                /\ args' = <<payload[1]>> \o args
    /\ UNCHANGED <<request, token, keys, key_index, jwt_decode, payload, invoked,
                   response, tried, kwargs, users, todos, waiting>>

\* the claims kept in a module-level variable that every request writes: the
\* wrapper reads those of another request when there are some
CheckUserIdSharedPayload ==
    /\ pc = "check_user_id"
    /\ calls' = Append(calls, "check_user_id")
    /\ LET others == {n \in DOMAIN waiting : waiting[n].payload # None}
           shared == IF others = {} THEN args[1]
                     ELSE waiting[CHOOSE n \in others : TRUE].payload[1]
           r == check_user_id(kwargs.user_id, shared)
       IN  IF r.kind = "raise"
           THEN /\ error' = Some(r.exc)
                /\ pc' = "raised"
           ELSE /\ error' = error
                /\ pc' = "handler"
    /\ UNCHANGED <<request, token, keys, key_index, jwt_decode, payload, invoked,
                   response, tried, args, kwargs, users, todos, waiting>>

\* the wrapper calling the view before it compares the subject
CheckUserIdAfterView ==
    /\ pc = "check_user_id"
    /\ calls' = Append(calls, "check_user_id")
    /\ LET r == check_user_id(kwargs.user_id, args[1])
           v == View(request.endpoint, args, kwargs)
       IN  /\ users' = v.users
           /\ todos' = v.todos
           /\ IF r.kind = "raise"
              THEN /\ error' = Some(r.exc)
                   /\ pc' = "raised"
              ELSE /\ error' = error
                   /\ pc' = "handler"
    /\ UNCHANGED <<request, token, keys, key_index, jwt_decode, payload, invoked,
                   response, tried, args, kwargs, waiting>>

\* auth.py:131-137: user_id = kwargs['user_id'], payload = args[0],
\* check_user_id, then f(*args, **kwargs)
CheckUserId ==
    /\ pc = "check_user_id"
    /\ calls' = Append(calls, "check_user_id")
    /\ LET r == check_user_id(kwargs.user_id, args[1])
       IN  IF r.kind = "raise"
           THEN /\ error' = Some(r.exc)
                /\ pc' = "raised"
           ELSE /\ error' = error
                /\ pc' = "handler"
    /\ UNCHANGED <<request, token, keys, key_index, jwt_decode, payload, invoked,
                   response, tried,
                   args, kwargs, users, todos, waiting>>

\* the body of the view function, called as f(*args, **kwargs), with what
\* it commits to the tables
Handler ==
    /\ pc = "handler"
    /\ calls' = Append(calls, "handler")
    /\ invoked' = Some([args |-> args, kwargs |-> kwargs])
    /\ LET r == View(request.endpoint, args, kwargs)
       IN  /\ users' = r.users
           /\ todos' = r.todos
           /\ IF r.result.kind = "raise"
              THEN /\ error' = Some(r.result.exc)
                   /\ pc' = "raised"
                   /\ response' = response
              ELSE /\ response' = Some(r.result.value)
                   /\ pc' = "responded"
                   /\ error' = error
    /\ UNCHANGED <<request, token, keys, key_index, jwt_decode, payload, tried,
                   args, kwargs, waiting>>

\* flask hands the exception to the error handler registered for it
HandleError ==
    /\ pc = "raised"
    /\ response' = Some(handle_error(error[1]))
    /\ pc' = "responded"
    /\ UNCHANGED <<request, token, keys, key_index, jwt_decode, payload, error,
                   invoked, calls, tried,
                   args, kwargs, users, todos, waiting>>

\* the response is sent and the request context is dropped
Finish ==
    /\ pc = "responded"
    /\ pc' = "idle"
    /\ request' = NoRequest
    /\ token' = None
    /\ keys' = None
    /\ key_index' = 0
    /\ jwt_decode' = <<>>
    /\ payload' = None
    /\ error' = None
    /\ invoked' = None
    /\ response' = None
    /\ calls' = <<>>
    /\ tried' = <<>>
    /\ args' = <<>>
    /\ kwargs' = <<>>
    /\ UNCHANGED <<users, todos, waiting>>

Next ==
    \/ Receive
    \/ GetTokenAuthHeader
    \/ Urlopen
    \/ JwtDecode
    \/ InvalidToken
    \/ CheckPermissions
    \/ CheckUserId
    \/ Handler
    \/ HandleError
    \/ Finish

Spec == Init /\ [][Next]_vars

\* ------------------------------------------- get_token_auth_header alone
\* a request that has just reached the token extractor, with a header value
\* of up to MaxHeaderLen atoms
InitHeader ==
    \E h \in HeadersOf(HeaderNames, StringsUpTo(Atoms, MaxHeaderLen)) :
        Fresh([NoRequest EXCEPT !.headers = h], "get_token_auth_header")

NextHeader ==
    \/ GetTokenAuthHeader
    \/ HandleError

SpecHeader == InitHeader /\ [][NextHeader]_vars

\* ----------------------------------------------- check_permissions alone
RECURSIVE PermissionListsUpTo(_)
PermissionListsUpTo(n) ==
    IF n = 0 THEN {<<>>}
    ELSE LET shorter == PermissionListsUpTo(n - 1)
         IN  shorter \cup {Append(l, p) : l \in shorter, p \in PermissionNames}

\* a request whose token has just been verified, decoding to any payload with
\* a permissions list of up to MaxPerms entries, or none
InitPerm ==
    \E r \in Requests({"Authorization"}, {<<"Bearer", " ", "abc">>}),
       p \in PayloadsOf(PermissionListsUpTo(MaxPerms), UserIds) :
        /\ WellRouted(r)
        /\ "Authorization" \in DOMAIN r.headers
        /\ Runs(VerifiedContext(r, p, "check_permissions",
                                <<"get_token_auth_header", "urlopen", "jwt.decode">>,
                                <<>>))
        /\ users = NoRows
        /\ todos = NoRows
        /\ waiting = <<>>

NextPerm ==
    \/ CheckPermissions
    \/ CheckUserId
    \/ Handler
    \/ HandleError

SpecPerm == InitPerm /\ [][NextPerm]_vars

\* --------------------------------------------------- check_user_id alone
\* user ids and subs that are prefixes, suffixes and case variants of each other
IdAtoms == {"auth0|", "abc", "ABC"}
WideUserIds == StringsUpTo(IdAtoms, MaxIdLen) \ {<<>>}
WideSubs == StringsUpTo(IdAtoms, MaxIdLen)

\* a request whose token has been verified and has passed check_permissions,
\* with any path user_id and any sub, or none
InitUser ==
    \E r \in RequestsOf(Endpoints, WideUserIds, GateTodoIds,
                         {[n \in {"Authorization"} |-> <<"Bearer", " ", "abc">>]}, {None}),
       p \in PayloadsOf({ManagerRole}, WideSubs) :
        /\ WellRouted(r)
        /\ HasUserId(r.endpoint)
        /\ "permissions" \in DOMAIN p
        /\ Runs(VerifiedContext(r, p, "check_user_id",
                                <<"get_token_auth_header", "urlopen", "jwt.decode",
                                  "check_permissions">>,
                                <<p>>))
        /\ users = NoRows
        /\ todos = NoRows
        /\ waiting = <<>>

NextUser ==
    \/ CheckUserId
    \/ Handler
    \/ HandleError

SpecUser == InitUser /\ [][NextUser]_vars

\* ------------------------------------------- the views and their tables
\* names, e-mail addresses and titles; "" is the empty str
Names == {<<"Ann">>, <<"Bob">>}
Emails == {<<"a", "@", "x", ".", "y">>, <<"b", "@", "x", ".", "y">>}
Titles == {<<"Do something">>}
AppTodoIds == {1}

\* the users tables the server starts on: the id is the key, the e-mail
\* addresses are unique (migrations/versions/599c198f193c_.py:21-27); the
\* other names come from the requests
UserTables ==
    {t \in UNION {[ids -> [name : {<<"Ann">>}, email : Emails]] : ids \in SUBSET UserIds} :
        \A a, b \in DOMAIN t : a # b => t[a].email # t[b].email}

\* the todos tables over a users table: owner_id is NULL or the id of a user
\* (migrations/versions/599c198f193c_.py:28-35)
TodoTables(us) ==
    UNION {[ids -> [owner_id : {None} \cup {Some(u) : u \in DOMAIN us},
                    title : Titles, done : BOOLEAN]] : ids \in SUBSET AppTodoIds}

\* request.json: no JSON body, objects for the user and todo routes, arrays
\* of todos
AppBodies ==
    {None}
    \cup {Some(Dict(m)) : m \in
            {NoFields,
             [name |-> <<"Bob">>],
             [name |-> <<>>],
             [email |-> <<"b", "@", "x", ".", "y">>],
             [email |-> <<"b", "@", "x">>],
             [email |-> <<"b", "@", "x", ".", "y", "\n">>],
             [name |-> <<"Bob">>, email |-> <<"b", "@", "x", ".", "y">>],
             [title |-> <<"Do something else">>],
             [done |-> TRUE],
             [done |-> FALSE]}}
    \cup {Some(List(l)) : l \in
            {<<>>,
             <<Dict([title |-> <<"Do something">>, done |-> FALSE])>>,
             <<Dict([done |-> TRUE])>>,
             <<Dict([title |-> <<"Do something">>]), Dict(NoFields)>>}}

\* a request without credentials, or with a token
AppHeaders == HeadersOf({"Authorization"}, {<<"Bearer", " ", "abc">>})

AppRequests == RequestsOf(Endpoints, UserIds, AppTodoIds, AppHeaders, AppBodies)

\* the claims of the token: a role or no permission, for the one subject
AppPayloads ==
    {[permissions |-> l, sub |-> <<"auth0|abc">>] : l \in {<<>>, UserRole, ManagerRole}}

ReceiveApp == ReceiveFrom(AppRequests)

UrlopenApp == UrlopenFrom({<<"key1">>}, AppPayloads)

\* the server starts on any tables
InitApp ==
    /\ Runs(FreshContext(NoRequest, "idle"))
    /\ users \in UserTables
    /\ todos \in TodoTables(users)
    /\ waiting = <<>>

NextApp ==
    \/ ReceiveApp
    \/ GetTokenAuthHeader
    \/ UrlopenApp
    \/ JwtDecode
    \/ InvalidToken
    \/ CheckPermissions
    \/ CheckUserId
    \/ Handler
    \/ HandleError
    \/ Finish

SpecApp == InitApp /\ [][NextApp]_vars

\* ------------------------------------------- requests served concurrently
\* the server runs each request in a thread of its own: between any two
\* steps of a request another thread may run.  The variables above are those
\* of the running thread, waiting holds those of the others.
Switch ==
    \E n \in DOMAIN waiting :
        /\ pc' = waiting[n].pc
        /\ request' = waiting[n].request
        /\ token' = waiting[n].token
        /\ keys' = waiting[n].keys
        /\ key_index' = waiting[n].key_index
        /\ jwt_decode' = waiting[n].jwt_decode
        /\ payload' = waiting[n].payload
        /\ error' = waiting[n].error
        /\ invoked' = waiting[n].invoked
        /\ response' = waiting[n].response
        /\ calls' = waiting[n].calls
        /\ tried' = waiting[n].tried
        /\ args' = waiting[n].args
        /\ kwargs' = waiting[n].kwargs
        /\ waiting' = [waiting EXCEPT ![n] = Running]
        /\ UNCHANGED <<users, todos>>

ConcEndpoints == {"get_all_users", "get_user"}
ConcUserIds == {<<"auth0|abc">>}
ConcPayloads == {[permissions |-> l, sub |-> u] : l \in {UserRole, ManagerRole}, u \in UserIds}

ConcRequests ==
    RequestsOf(ConcEndpoints, ConcUserIds, {},
               HeadersOf({"Authorization"}, {<<"Bearer", " ", "abc">>}), {None})

ReceiveConc == ReceiveFrom(ConcRequests)

\* verify_decode_jwt keeping the key set in a module-level variable: when
\* another request has one, it is used and nothing is fetched
UrlopenConcCached ==
    /\ pc = "urlopen"
    /\ \/ \E n \in DOMAIN waiting :
             /\ waiting[n].keys # None
             /\ keys' = waiting[n].keys
             /\ jwt_decode' \in [Range(waiting[n].keys[1]) -> DecodeOutcomes(ConcPayloads)]
             /\ key_index' = 1
             /\ pc' = "for_key"
             /\ UNCHANGED <<calls, error>>
       \/ /\ \A n \in DOMAIN waiting : waiting[n].keys = None
          /\ calls' = Append(calls, "urlopen")
          /\ \E ks \in KeySetsUpTo(MaxConcKeys) :
                /\ keys' = Some(ks)
                /\ jwt_decode' \in [Range(ks) -> DecodeOutcomes(ConcPayloads)]
                /\ key_index' = 1
                /\ pc' = "for_key"
                /\ error' = error
    /\ UNCHANGED <<request, token, payload, invoked, response, tried,
                   args, kwargs, users, todos, waiting>>

UrlopenConc == UrlopenFrom(KeySetsUpTo(MaxConcKeys), ConcPayloads)

\* two threads, both idle
InitConc ==
    /\ Runs(FreshContext(NoRequest, "idle"))
    /\ users = NoRows
    /\ todos = NoRows
    /\ waiting = <<FreshContext(NoRequest, "idle")>>

NextConc ==
    \/ ReceiveConc
    \/ GetTokenAuthHeader
    \/ UrlopenConc
    \/ JwtDecode
    \/ InvalidToken
    \/ CheckPermissions
    \/ CheckUserId
    \/ Handler
    \/ HandleError
    \/ Finish
    \/ Switch

SpecConc == InitConc /\ [][NextConc]_vars

\* ------------------------------------------ PUT requests served concurrently
\* two threads serve PUT /users/auth0|abc requests of the user auth0|abc
PutBodies ==
    {Some(Dict([name |-> n, email |-> e])) : n \in Names, e \in Emails}

PutPayloads == {[permissions |-> UserRole, sub |-> <<"auth0|abc">>]}

PutRequests == RequestsOf({"put_user"}, ConcUserIds, {}, AppHeaders, PutBodies)

ReceivePut == ReceiveFrom(PutRequests)

UrlopenPut == UrlopenFrom({<<"key1">>}, PutPayloads)

\* the user is stored already, or not yet
InitPut ==
    /\ Runs(FreshContext(NoRequest, "idle"))
    /\ users \in {t \in UserTables : DOMAIN t \subseteq ConcUserIds}
    /\ todos = NoRows
    /\ waiting = <<FreshContext(NoRequest, "idle")>>

NextPut ==
    \/ ReceivePut
    \/ GetTokenAuthHeader
    \/ UrlopenPut
    \/ JwtDecode
    \/ InvalidToken
    \/ CheckPermissions
    \/ CheckUserId
    \/ Handler
    \/ HandleError
    \/ Finish
    \/ Switch

SpecPut == InitPut /\ [][NextPut]_vars

\* ================================================================ claims
Last(q) == q[Len(q)]
HandlerReached == pc = "handler" \/ invoked # None

\* the place of each function in the guard chain
Rank(fn) ==
    CASE fn = "get_token_auth_header" -> 1
      [] fn = "urlopen" -> 2
      [] fn = "jwt.decode" -> 3
      [] fn = "check_permissions" -> 4
      [] fn = "check_user_id" -> 5
      [] fn = "handler" -> 6

\* the functions whose raise an exception can come from
RaisedBy(e) ==
    IF e.type \in {"HTTPException", "TypeError", "AttributeError", "IntegrityError"}
    THEN {"handler"}
    ELSE IF e \in FetchErrors THEN {"urlopen"}
    ELSE IF e.error \in {"Authorization header missing", "Malformed Authorization header"}
    THEN {"get_token_auth_header"}
    ELSE IF e.error = "Invalid token" THEN {"urlopen", "jwt.decode"}
    ELSE IF e.error \in {"Subject missing from payload"} \cup
                        {"Request is not autheticated by user with id \"" \o Text(u)
                         \o "\"" : u \in UserIds}
    THEN {"check_user_id"}
    ELSE {"check_permissions"}

\* no guard has raised: there is no exception, or it comes from the view body
NoGuardError == error = None \/ RaisedBy(error[1]) = {"handler"}

\* C1: the view body is reached only after, in this order and within the same
\* request, get_token_auth_header returned a token, verify_decode_jwt returned
\* claims for it and check_permissions passed for the route's permission; once
\* a stage has raised, nothing after it has run and the view body never runs.
C1_GuardBeforeHandler ==
    /\ \A a, b \in DOMAIN calls :
          a < b => \/ Rank(calls[a]) < Rank(calls[b])
                   \/ calls[a] = "jwt.decode" /\ calls[b] = "jwt.decode"
    /\ HandlerReached =>
          /\ {"get_token_auth_header", "urlopen", "jwt.decode", "check_permissions"}
                \subseteq Range(calls)
          /\ token # None
          /\ payload # None
          /\ keys # None
          /\ \E k \in Range(keys[1]) : jwt_decode[k] = Return(payload[1])
          /\ "permissions" \in DOMAIN payload[1]
          /\ \E n \in DOMAIN payload[1].permissions :
                payload[1].permissions[n] = Permission(request.endpoint)
          /\ NoGuardError
    /\ error # None =>
          /\ invoked = None \/ NoGuardError
          /\ pc \in {"raised", "responded"}
          /\ Last(calls) \in RaisedBy(error[1])

C1_Witness ==
    /\ invoked # None
    /\ Len(tried) = 2

\* C2: on every route with a user_id the view body runs only if the sub of the
\* verified claims equals the path user_id; when it differs (or is absent)
\* the request ends in an AuthError and the body is never reached.
C2_OwnerBeforeHandler ==
    HasUserId(request.endpoint) =>
        /\ HandlerReached =>
              /\ payload # None
              /\ "sub" \in DOMAIN payload[1]
              /\ payload[1].sub = request.user_id[1]
        /\ ( /\ payload # None
             /\ pc \in {"raised", "responded"}
             /\ "check_user_id" \in Range(calls)
             /\ ("sub" \in DOMAIN payload[1] => payload[1].sub # request.user_id[1]) ) =>
              /\ error # None
              /\ error[1].type = "AuthError"
              /\ invoked = None

C2_Witness ==
    /\ request.endpoint = "patch_todo"
    /\ pc = "responded"
    /\ "check_user_id" \in Range(calls)
    /\ "sub" \in DOMAIN payload[1]
    /\ payload[1].sub # request.user_id[1]
    /\ response[1].status = 401

\* no header of the request is named Authorization, in any case
NoAuthorizationHeader ==
    \A n \in DOMAIN request.headers : n \notin {"Authorization", "AUTHORIZATION"}

\* C3: a request without an Authorization header is rejected with
\* AuthError('Authorization header missing', 401) and neither the key-set
\* fetch nor jwt.decode has been called for it.
C3_MissingHeaderBeforeFetch ==
    (NoAuthorizationHeader /\ pc \notin {"idle", "get_token_auth_header"}) =>
        /\ error = Some(AuthError("Authorization header missing", 401))
        /\ calls = <<"get_token_auth_header">>
        /\ keys = None
        /\ tried = <<>>
        /\ invoked = None

C3_Witness ==
    /\ pc = "responded"
    /\ DOMAIN request.headers = {"Accept"}
    /\ response[1].status = 401

\* v is: whitespace, the word bearer in some case, whitespace, one more word
\* (the atoms j..k of v), whitespace
BearerShape(v, i, j, k) ==
    /\ \A n \in 1..(i - 1) : IsSpace(v[n])
    /\ v[i] \in {"Bearer", "bearer"}
    /\ i + 1 < j
    /\ \A n \in (i + 1)..(j - 1) : IsSpace(v[n])
    /\ j <= k
    /\ \A n \in j..k : ~IsSpace(v[n])
    /\ \A n \in (k + 1)..Len(v) : IsSpace(v[n])

TwoPartBearer(v) == \E i, j, k \in DOMAIN v : BearerShape(v, i, j, k)

AuthorizationValues ==
    {request.headers[n] : n \in DOMAIN request.headers \cap {"Authorization", "AUTHORIZATION"}}

\* C4: a header value that is present but is not two whitespace-separated
\* parts with the first one bearer in some case makes get_token_auth_header
\* raise AuthError('Malformed Authorization header', 401).
C4_MalformedHeader ==
    \A v \in AuthorizationValues :
        (~TwoPartBearer(v) /\ pc # "get_token_auth_header") =>
            /\ error = Some(AuthError("Malformed Authorization header", 401))
            /\ token = None

C4_Witness ==
    /\ pc = "responded"
    /\ \E v \in AuthorizationValues : Len(split(v)) = 3 /\ v[1] = "Bearer"
    /\ response[1].status = 401

\* C5: for a header value of two whitespace-separated parts whose first is
\* bearer in some case, under a header name in any case, get_token_auth_header
\* returns exactly the second part and changes nothing else.
C5_ReturnsSecondPart ==
    [][ \A v \in AuthorizationValues : \A i, j, k \in DOMAIN v :
          (pc = "get_token_auth_header" /\ BearerShape(v, i, j, k)) =>
              /\ token' = Some(SubSeq(v, j, k))
              /\ pc' = "urlopen"
              /\ UNCHANGED <<request, keys, key_index, jwt_decode, payload,
                             error, invoked, response, tried>> ]_vars

C5_Witness ==
    /\ pc = "urlopen"
    /\ DOMAIN request.headers = {"AUTHORIZATION"}
    /\ request.headers["AUTHORIZATION"] = <<" ", "bearer", " ", "Bearer", "abc">>
    /\ token = Some(<<"Bearer", "abc">>)

ValidatingKeys == {k \in Range(keys[1]) : jwt_decode[k].kind = "return"}

\* C6: when the token validates against no key of the fetched key set, of
\* whatever length, verify_decode_jwt raises AuthError('Invalid token', 401)
\* and yields no claims.
C6_NoKeyInvalidToken ==
    (keys # None /\ pc # "for_key" /\ ValidatingKeys = {}) =>
        /\ error = Some(AuthError("Invalid token", 401))
        /\ payload = None
        /\ invoked = None

C6_Witness ==
    /\ pc = "responded"
    /\ keys # None
    /\ ValidatingKeys = {}
    /\ Cardinality(Range(keys[1])) = 2
    /\ response[1].status = 401

\* C7: the keys are handed to jwt.decode in the order of the key set, each at
\* most once; every key tried before the last one failed; the claims returned
\* are those of the first key that decodes, and no key after it is tried.
C7_FirstMatchWins ==
    keys # None =>
        LET ks == keys[1]
            n == Len(tried)
        IN  /\ n <= Len(ks)
            /\ \A m \in 1..n : tried[m] = ks[m]
            /\ Cardinality({c \in DOMAIN calls : calls[c] = "jwt.decode"}) = n
            /\ \A m \in 1..(n - 1) : jwt_decode[ks[m]].kind = "raise"
            /\ payload # None =>
                  /\ n >= 1
                  /\ jwt_decode[ks[n]] = Return(payload[1])
            /\ (payload = None /\ pc # "for_key") =>
                  /\ n = Len(ks)
                  /\ \A m \in 1..n : jwt_decode[ks[m]].kind = "raise"

C7_Witness ==
    /\ pc = "responded"
    /\ payload # None
    /\ Len(tried) = 1
    /\ Len(keys[1]) = 2
    /\ keys[1][1] # keys[1][2]
    /\ jwt_decode[keys[1][2]].kind = "return"
    /\ jwt_decode[keys[1][2]] # jwt_decode[keys[1][1]]

\* C8: when exactly one key of the fetched key set validates the token,
\* verify_decode_jwt returns that key's claims wherever the key stands in the
\* set.
C8_OneMatchAnyPosition ==
    (keys # None /\ pc # "for_key") =>
        \A k \in ValidatingKeys :
            ValidatingKeys = {k} => payload = Some(jwt_decode[k].value)

C8_Witness ==
    /\ payload # None
    /\ Len(keys[1]) = 2
    /\ jwt_decode[keys[1][1]].kind = "raise"
    /\ jwt_decode[keys[1][2]] = Return(payload[1])
    /\ invoked # None

\* C9: claims without a permissions field make check_permissions raise
\* AuthError('Permissions missing from payload', 401) for every required
\* permission; the request goes no further.
C9_PermissionsMissing ==
    ( /\ payload # None
      /\ "permissions" \notin DOMAIN payload[1]
      /\ "check_permissions" \in Range(calls) ) =>
        /\ error = Some(AuthError("Permissions missing from payload", 401))
        /\ pc \in {"raised", "responded"}
        /\ Last(calls) = "check_permissions"
        /\ invoked = None

C9_Witness ==
    /\ pc = "responded"
    /\ payload # None
    /\ DOMAIN payload[1] = {"sub"}
    /\ payload[1].sub = request.user_id[1]
    /\ response[1].status = 401

\* C10: for claims with a permissions list, check_permissions passes when the
\* required permission P is an entry of the list and otherwise raises an
\* AuthError whose message names P.
C10_PermissionMembership ==
    ( /\ payload # None
      /\ "permissions" \in DOMAIN payload[1]
      /\ calls # <<>>
      /\ Last(calls) = "check_permissions" ) =>
        LET P == Permission(request.endpoint)
            list == payload[1].permissions
        IN  IF \E n \in DOMAIN list : list[n] = P
            THEN /\ error = None
                 /\ pc \in {"check_user_id", "handler"}
            ELSE /\ error = Some(AuthError("Payload does not include the " \o P
                                           \o " permission", 401))
                 /\ pc \in {"raised", "responded"}

C10_Witness ==
    /\ pc = "check_user_id"
    /\ payload # None
    /\ "permissions" \in DOMAIN payload[1]
    /\ payload[1].permissions = <<"write:all-users", "write:own-todos">>
    /\ request.endpoint = "delete_todo"

\* the strings a and b have the same characters at the same places
SameString(a, b) == Len(a) = Len(b) /\ \A n \in 1..Len(a) : a[n] = b[n]

\* C11: check_user_id passes exactly when the claims have a sub and the sub is,
\* character for character, the path user_id (a sub that only starts with,
\* ends with or differs in case from the user_id does not pass); without a
\* sub it raises AuthError('Subject missing from payload', 401), and with a
\* different sub an AuthError with status 401 whose message names the user_id.
C11_ExactSubject ==
    (payload # None /\ "check_user_id" \in Range(calls)) =>
        LET user_id == request.user_id[1]
        IN  IF "sub" \notin DOMAIN payload[1]
            THEN /\ error = Some(AuthError("Subject missing from payload", 401))
                 /\ invoked = None
            ELSE IF SameString(payload[1].sub, user_id)
            THEN /\ NoGuardError
                 /\ pc = "handler" \/ invoked # None
            ELSE /\ error = Some(AuthError("Request is not autheticated by user with id \""
                                           \o Text(user_id) \o "\"", 401))
                 /\ invoked = None

C11_Witness ==
    /\ pc = "responded"
    /\ request.user_id = Some(<<"auth0|">>)
    /\ "sub" \in DOMAIN payload[1]
    /\ payload[1].sub = <<"auth0|", "abc">>
    /\ response[1].status = 401

\* how often fn has been called for the running request
Count(fn) == Cardinality({n \in DOMAIN calls : calls[n] = fn})

\* C12: once check_permissions has passed, the function under
\* requires_auth_permission is called exactly once, with the decoded claims as
\* the first positional argument and the keyword arguments of the route
\* unchanged; requires_auth_user hands the same arguments to the view body.
C12_ArgumentsPassedOn ==
    /\ Count("check_permissions") <= 1
    /\ Count("check_user_id") <= 1
    /\ Count("handler") <= 1
    /\ (pc \in {"check_user_id", "handler"} \/ invoked # None) =>
          /\ payload = Some(jwt_decode[Last(tried)].value)
          /\ args = <<payload[1]>>
          /\ kwargs = ViewArgs(request)
          /\ Count("check_permissions") = 1
    /\ (pc = "handler" \/ invoked # None) =>
          Count("check_user_id") = IF RequiresAuthUser(request.endpoint) THEN 1 ELSE 0
    /\ invoked # None =>
          /\ invoked = Some([args |-> <<payload[1]>>, kwargs |-> ViewArgs(request)])
          /\ Count("handler") = 1

C12_Witness ==
    /\ pc = "responded"
    /\ request.endpoint = "delete_todo"
    /\ invoked # None
    /\ DOMAIN invoked[1].kwargs = {"user_id", "todo_id"}
    /\ "sub" \in DOMAIN invoked[1].args[1]

\* the claims lack the permission of the route
LacksPermission ==
    \/ "permissions" \notin DOMAIN payload[1]
    \/ \A n \in DOMAIN payload[1].permissions :
          payload[1].permissions[n] # Permission(request.endpoint)

\* C13: check_user_id runs only after check_permissions has passed on the
\* claims verify_decode_jwt returned in the same request; a request whose
\* claims lack the route's permission is rejected by check_permissions,
\* whatever its sub is, and check_user_id is not called for it.
C13_PermissionBeforeOwnership ==
    /\ \A a, b \in DOMAIN calls :
          (calls[a] = "check_user_id" /\ calls[b] = "check_permissions") => b < a
    /\ "check_user_id" \in Range(calls) =>
          /\ "check_permissions" \in Range(calls)
          /\ payload = Some(jwt_decode[Last(tried)].value)
          /\ ~LacksPermission
    /\ (payload # None /\ LacksPermission /\ pc \in {"raised", "responded"}) =>
          /\ error # None
          /\ error[1] \in {AuthError("Permissions missing from payload", 401),
                           AuthError("Payload does not include the "
                                     \o Permission(request.endpoint) \o " permission", 401)}
          /\ Last(calls) = "check_permissions"
          /\ "check_user_id" \notin Range(calls)
          /\ invoked = None

C13_Witness ==
    /\ pc = "responded"
    /\ request.endpoint = "put_user"
    /\ payload # None
    /\ DOMAIN payload[1] = {"permissions", "sub"}
    /\ payload[1].permissions = <<>>
    /\ payload[1].sub # request.user_id[1]
    /\ response[1].status = 401

\* the answer of handle_401 (app.py:261-266)
NotAuthorized ==
    [status |-> 401, body |-> [success |-> FALSE, message |-> "Not authorized"]]

\* the reasons for which the running request is not authorized, read off its
\* headers, the fetched keys and the claims
FailureReasons ==
    {reason \in {"header missing", "header malformed", "invalid token",
                 "permissions missing", "permission not included",
                 "subject missing", "subject mismatch"} :
        CASE reason = "header missing" -> NoAuthorizationHeader
          [] reason = "header malformed" ->
                \E v \in AuthorizationValues : ~TwoPartBearer(v)
          [] reason = "invalid token" -> keys # None /\ ValidatingKeys = {}
          [] reason = "permissions missing" ->
                payload # None /\ "permissions" \notin DOMAIN payload[1]
          [] reason = "permission not included" ->
                /\ payload # None
                /\ "permissions" \in DOMAIN payload[1]
                /\ LacksPermission
          [] reason = "subject missing" ->
                /\ payload # None
                /\ HasUserId(request.endpoint)
                /\ "sub" \notin DOMAIN payload[1]
          [] reason = "subject mismatch" ->
                /\ payload # None
                /\ HasUserId(request.endpoint)
                /\ "sub" \in DOMAIN payload[1]
                /\ payload[1].sub # request.user_id[1]}

\* C14: every AuthError carries status code 401, and a request that fails
\* authorization for any of the seven reasons is answered with one and the
\* same response: 401, {"success": false, "message": "Not authorized"}.
C14_UniformRejection ==
    /\ (error # None /\ error[1].type = "AuthError") => error[1].status_code = 401
    /\ (pc = "responded" /\ FailureReasons # {}) =>
          /\ error # None
          /\ error[1].type = "AuthError"
          /\ response = Some(NotAuthorized)
    /\ (pc = "responded" /\ error # None /\ error[1].type = "AuthError") =>
          /\ FailureReasons # {}
          /\ response = Some(NotAuthorized)

C14_Witness ==
    /\ pc = "responded"
    /\ FailureReasons = {"subject missing"}
    /\ error = Some(AuthError("Subject missing from payload", 401))
    /\ response = Some(NotAuthorized)

\* C15: when the fetch of the key set or its parsing fails, the exception
\* leaves verify_decode_jwt as it is: it is no AuthError (so not 'Invalid
\* token' and not answered 401), no key is handed to jwt.decode and no check
\* or view body runs.
C15_FetchFailurePropagates ==
    ("urlopen" \in Range(calls) /\ keys = None) =>
        /\ error # None
        /\ error[1] \in FetchErrors
        /\ error[1].type # "AuthError"
        /\ Last(calls) = "urlopen"
        /\ tried = <<>>
        /\ payload = None
        /\ invoked = None
        /\ pc \in {"raised", "responded"}
        /\ pc = "responded" => response = Some(ErrorResponse(500, "Internal error"))

C15_Witness ==
    /\ pc = "responded"
    /\ error = Some(JSONDecodeError)
    /\ token # None
    /\ response[1].status = 500

\* the requests in flight: the running one and the waiting ones
InFlight == <<Running>> \o waiting

CountIn(c, fn) == Cardinality({n \in DOMAIN c.calls : c.calls[n] = fn})

\* verify_decode_jwt has been called for c and is past auth.py:86-88
PastFetch(c) == c.token # None /\ c.pc # "urlopen"

RECURSIVE Sum(_)
Sum(q) == IF q = <<>> THEN 0 ELSE Head(q) + Sum(Tail(q))

\* C16: every call of verify_decode_jwt fetches the key set exactly once and
\* tries only keys of that fetch; a call starts without a key set, whatever
\* an earlier or a concurrent request fetched; over the requests in flight
\* there are as many fetches as calls of verify_decode_jwt that are past the
\* fetch.
C16_OneFetchPerVerification ==
    /\ \A n \in DOMAIN InFlight :
          LET c == InFlight[n]
          IN  /\ CountIn(c, "urlopen") = IF PastFetch(c) THEN 1 ELSE 0
              /\ ~PastFetch(c) => (c.keys = None /\ c.jwt_decode = <<>> /\ c.tried = <<>>)
              /\ c.keys # None => Range(c.tried) \subseteq Range(c.keys[1])
              /\ c.keys = None => c.tried = <<>>
    /\ Sum([n \in DOMAIN InFlight |-> CountIn(InFlight[n], "urlopen")])
          = Cardinality({n \in DOMAIN InFlight : PastFetch(InFlight[n])})

C16_Witness ==
    /\ pc = "for_key"
    /\ waiting[1].pc = "check_permissions"
    /\ keys # waiting[1].keys
    /\ Sum([n \in DOMAIN InFlight |-> CountIn(InFlight[n], "urlopen")]) = 2

\* what the guards decide for a request, from its own headers and route,
\* the key set fetched for it and what jwt.decode gives for its token
Expected(c) ==
    LET t == get_token_auth_header(c.request.headers)
    IN  IF t.kind = "raise" THEN "401"
        ELSE IF c.keys = None THEN "500"
        ELSE LET ks == c.keys[1]
                 ok == {n \in DOMAIN ks : c.jwt_decode[ks[n]].kind = "return"}
             IN  IF ok = {} THEN "401"
                 ELSE LET first == CHOOSE n \in ok : \A m \in ok : n <= m
                          claims == c.jwt_decode[ks[first]].value
                          e == c.request.endpoint
                      IN  IF check_permissions(Permission(e), claims).kind = "raise"
                          THEN "401"
                          ELSE IF /\ RequiresAuthUser(e)
                                  /\ check_user_id(c.request.user_id[1], claims).kind = "raise"
                          THEN "401"
                          ELSE "pass"

\* what happened to an answered request
Observed(c) ==
    IF c.invoked # None THEN "pass"
    ELSE IF c.response[1].status = 401 THEN "401"
    ELSE "500"

\* the step hands the processor to a waiting request and changes nothing else
IsSwitch ==
    /\ \E n \in DOMAIN waiting :
          /\ waiting' = [waiting EXCEPT ![n] = Running]
          /\ Running' = waiting[n]
    /\ UNCHANGED <<users, todos>>

\* C17: however the steps of two requests are interleaved, what the guards
\* decide for a request is a function of its own headers and path user_id, the
\* key set fetched for it and the decoding of its own token; a step of a
\* request leaves the variables of the other request as they are, and a step
\* of the guards leaves the tables as they are.
C17_NoSharedAuthorizationState ==
    /\ [](\A n \in DOMAIN InFlight :
             InFlight[n].pc = "responded" => Observed(InFlight[n]) = Expected(InFlight[n]))
    /\ [][ \/ IsSwitch
           \/ /\ waiting' = waiting
              /\ pc # "handler" => UNCHANGED <<users, todos>> ]_vars

C17_Witness ==
    /\ pc = "responded"
    /\ invoked # None
    /\ waiting[1].pc = "responded"
    /\ waiting[1].payload # None
    /\ waiting[1].payload # payload
    /\ waiting[1].response[1].status = 401
    /\ waiting[1].request = request

\* C18: a request without an Authorization header, to any of the nine
\* routes, is answered 401 whatever the tables hold and whatever its body is;
\* nothing but get_token_auth_header has run for it.
C18_NoCredentials ==
    (NoAuthorizationHeader /\ pc = "responded") =>
        /\ response = Some(NotAuthorized)
        /\ calls = <<"get_token_auth_header">>
        /\ invoked = None

C18_Witness ==
    /\ pc = "responded"
    /\ NoAuthorizationHeader
    /\ request.endpoint = "post_todo"
    /\ request.json # None
    /\ request.user_id[1] \in DOMAIN users
    /\ todos # NoRows
    /\ response[1].status = 401

\* a status of the 2xx class
Is2xx(status) == status \in 200..299

\* once the key set has been fetched, the non-401 answers go to tokens with
\* the route's permission; a user-role token is answered 401 on GET /users
C19_PermissionNeeded ==
    pc = "responded" =>
        /\ (response[1].status # 401 /\ keys # None) =>
              (payload # None /\ ~LacksPermission)
        /\ ( /\ request.endpoint = "get_all_users"
             /\ payload # None
             /\ "permissions" \in DOMAIN payload[1]
             /\ payload[1].permissions = UserRole ) => response[1].status = 401

\* the request is one of those of test_app.py:521-611: it addresses a stored
\* user and a stored todo (PUT: a user that is not stored, with a free
\* e-mail address) and carries the body the route is for
AsInThePermissionTests ==
    LET e == request.endpoint
        body == request.json
    IN  /\ e \in {"get_user", "patch_user", "delete_user", "get_todos", "post_todo"}
              => kwargs.user_id \in DOMAIN users
        /\ e \in {"patch_todo", "delete_todo"} => kwargs.todo_id \in DOMAIN todos
        /\ e = "put_user" =>
              /\ kwargs.user_id \notin DOMAIN users
              /\ body # None
              /\ IsDict(body[1])
              /\ DOMAIN body[1].value = {"name", "email"}
              /\ \A u \in DOMAIN users : users[u].email # body[1].value.email
        /\ e = "patch_user" => body = Some(Dict([name |-> <<"Bob">>]))
        /\ e = "post_todo" =>
              /\ body # None
              /\ IsList(body[1])
              /\ body[1].items # <<>>
              /\ \A n \in DOMAIN body[1].items :
                    "title" \in DOMAIN body[1].items[n].value
        /\ e = "patch_todo" => body = Some(Dict([done |-> TRUE]))

\* C19: a route answers with a status other than 401 only to a token whose
\* permissions include the route's permission (the token being verified
\* against a fetched key set); a user-role token is answered
\* 401 on GET /users and 2xx on the routes of its own user and todos, and a
\* manager-role token 2xx on all nine routes (on the requests of the
\* permission tests: stored user and todo, the body the route is for).
C19_RoleMatrix ==
    /\ []C19_PermissionNeeded
    /\ [][ ( /\ pc = "handler"
             /\ payload[1].permissions \in {UserRole, ManagerRole}
             /\ AsInThePermissionTests ) =>
               /\ pc' = "responded"
               /\ Is2xx(response'[1].status) ]_vars

\* an existing user makes PUT answer 409 with success false
C20_Conflict ==
    (pc = "responded" /\ request.endpoint = "put_user" /\ invoked # None
     /\ request.user_id[1] \in DOMAIN users) =>
        response = Some(ErrorResponse(409, "Conflict"))

\* C20: an authorized PUT /users/{user_id} whose body has a name and an e-mail
\* address that no stored user has creates the user exactly when no user with that id is stored: it
\* then answers 201 and the users table has gained the row (user_id, name,
\* email); when the user is stored it answers 409 with success false and the
\* users table is unchanged.
C20_PutCreatesOrConflicts ==
    /\ []C20_Conflict
    /\ [][ ( /\ pc = "handler"
             /\ request.endpoint = "put_user"
             /\ request.json # None
             /\ IsDict(request.json[1])
             /\ DOMAIN request.json[1].value = {"name", "email"}
             /\ \A u \in DOMAIN users :
                   users[u].email # request.json[1].value.email ) =>
               LET id == kwargs.user_id
                   body == request.json[1].value
               IN  IF id \in DOMAIN users
                   THEN /\ users' = users
                        /\ error' = Some(HTTPException(409))
                   ELSE /\ users' = (id :> [name |-> body.name, email |-> body.email])
                                    @@ users
                        /\ response' = Some([status |-> 201,
                                             body |-> [success |-> TRUE,
                                                       user |-> [id |-> id,
                                                                 name |-> body.name,
                                                                 email |-> body.email]]]) ]_vars

\* the view body of endpoint e is about to run
AtView(e) == pc = "handler" /\ request.endpoint = e

\* the view body of endpoint e ran and the request is answered
Answered(e) == pc = "responded" /\ request.endpoint = e /\ invoked # None

\* the JSON object of the request has neither name nor email, or an email
\* that is not word@word.word
InvalidUserPatch(body) ==
    /\ body # None
    /\ IsDict(body[1])
    /\ \/ DOMAIN body[1].value \cap {"name", "email"} = {}
       \/ /\ "email" \in DOMAIN body[1].value
          /\ ~EmailShape(body[1].value.email)

ValidBody(e, body) ==
    /\ e = "patch_user" =>
          /\ body # None
          /\ IsDict(body[1])
          /\ DOMAIN body[1].value \cap {"name", "email"} # {}
          /\ "email" \in DOMAIN body[1].value => EmailShape(body[1].value.email)
    /\ e = "post_todo" =>
          /\ body # None
          /\ IsList(body[1])
          /\ body[1].items # <<>>
          /\ \A n \in DOMAIN body[1].items :
                /\ IsDict(body[1].items[n])
                /\ "title" \in DOMAIN body[1].items[n].value

\* the routes that answer 404 for a user that is not stored
UserRoutes == {"get_user", "patch_user", "delete_user", "get_todos", "post_todo"}

\* C22: an authorized GET, PATCH or DELETE /users/{id}, GET or POST
\* /users/{id}/todos with a valid body for an id under which no user is stored
\* raises 404, stores no user and no todo, and is answered 404 with success
\* false.
C22_MissingUser ==
    /\ []((pc = "responded" /\ error = Some(HTTPException(404))) =>
            response = Some(ErrorResponse(404, "Resource not found")))
    /\ [][ ( /\ pc = "handler"
             /\ request.endpoint \in UserRoutes
             /\ kwargs.user_id \notin DOMAIN users
             /\ ValidBody(request.endpoint, request.json) ) =>
               /\ error' = Some(HTTPException(404))
               /\ UNCHANGED <<users, todos>> ]_vars

\* a PATCH with a name for a user that is not stored has been answered 404
C22_Witness ==
    /\ Answered("patch_user")
    /\ request.json = Some(Dict([name |-> <<"Bob">>]))
    /\ kwargs.user_id \notin DOMAIN users
    /\ response = Some(ErrorResponse(404, "Resource not found"))

\* the field is present in the JSON object
Given(object, field) == field \in DOMAIN object

\* C23: a PATCH /users/{user_id} that succeeds sets the fields present in the
\* body and no other: the stored name is the body's name when there is one and
\* the previous name otherwise, the same for the e-mail address, the id and the
\* other users are as before, and the response carries the stored values.
C23_PatchUserSetsGivenFields ==
    [][ (AtView("patch_user") /\ pc' = "responded") =>
          LET id == kwargs.user_id
              body == request.json[1].value
              name == IF Given(body, "name") THEN body.name ELSE users[id].name
              email == IF Given(body, "email") THEN body.email ELSE users[id].email
          IN  /\ DOMAIN users' = DOMAIN users
              /\ \A other \in DOMAIN users \ {id} : users'[other] = users[other]
              /\ users'[id] = [name |-> name, email |-> email]
              /\ todos' = todos
              /\ response' = Some([status |-> 200,
                                   body |-> [success |-> TRUE,
                                             user |-> [id |-> id, name |-> name,
                                                       email |-> email]]]) ]_vars

\* the response of a successful DELETE
Deleted == Some([status |-> 200, body |-> [success |-> TRUE]])

InvalidTodoList(body) ==
    /\ body # None
    /\ \/ ~IsList(body[1])
       \/ body[1].items = <<>>
       \/ \E n \in DOMAIN body[1].items :
             /\ IsDict(body[1].items[n])
             /\ "title" \notin DOMAIN body[1].items[n].value

\* the done value of an item of the request: false when absent
DoneOf(item) == IF "done" \in DOMAIN item.value THEN item.value.done ELSE FALSE

\* C25: an authorized POST /users/{user_id}/todos for a stored user with a
\* non-empty list of items that all have a title is answered 200 and stores
\* one new todo per item, owned by user_id, with the item's title and done
\* (false when absent), the rows stored before being kept; the response lists
\* the new todos in the order of the request, with user_id.  An empty list, a
\* body that is not a list or an item without title raise 400, a body that is
\* not JSON 415.
C25_PostTodoCreates ==
    [][ (AtView("post_todo") /\ kwargs.user_id \in DOMAIN users) =>
          LET body == request.json
          IN  /\ body = None => error' = Some(HTTPException(415))
              /\ InvalidTodoList(body) => error' = Some(HTTPException(400))
              /\ ValidBody("post_todo", body) =>
                    LET items == body[1].items
                        listed == response'[1].body.todos
                    IN  /\ pc' = "responded"
                        /\ response'[1].status = 200
                        /\ response'[1].body.success
                        /\ response'[1].body.user_id = kwargs.user_id
                        /\ users' = users
                        /\ \A id \in DOMAIN todos :
                              id \in DOMAIN todos' /\ todos'[id] = todos[id]
                        /\ Len(listed) = Len(items)
                        /\ DOMAIN todos' \ DOMAIN todos =
                              {listed[n].id : n \in DOMAIN listed}
                        /\ \A m, n \in DOMAIN listed :
                              listed[m].id = listed[n].id => m = n
                        /\ \A n \in DOMAIN listed :
                              /\ listed[n].title = items[n].value.title
                              /\ listed[n].done = DoneOf(items[n])
                              /\ todos'[listed[n].id] =
                                    [owner_id |-> Some(kwargs.user_id),
                                     title |-> items[n].value.title,
                                     done |-> DoneOf(items[n])] ]_vars

Rejected == error # None /\ error[1].type = "AuthError"

\* C28: a request that a guard rejects with AuthError is answered 401 without
\* its view body having run, and no step other than a view body changes the
\* users or the todos table: the tables are as they were before the request,
\* whatever the endpoint and the body.
C28_RejectedLeavesTables ==
    /\ [](Rejected => invoked = None /\ "handler" \notin Range(calls))
    /\ []((Rejected /\ pc = "responded") => response[1].status = 401)
    /\ [][pc # "handler" => UNCHANGED <<users, todos>>]_vars

\* a DELETE of a stored user by the token of another user has been rejected,
\* and the user is still stored
C28_Witness ==
    /\ pc = "responded"
    /\ Rejected
    /\ request.endpoint = "delete_user"
    /\ payload # None
    /\ ~LacksPermission
    /\ payload[1].sub # kwargs.user_id
    /\ kwargs.user_id \in DOMAIN users
    /\ response[1].status = 401

\* the body is a list with an item that has no title
HasUntitledItem(body) ==
    /\ body # None
    /\ IsList(body[1])
    /\ \E n \in DOMAIN body[1].items : "title" \notin DOMAIN body[1].items[n].value

PutAnswers ==
    {n \in DOMAIN InFlight :
        /\ InFlight[n].pc = "responded"
        /\ InFlight[n].request.endpoint = "put_user"
        /\ InFlight[n].invoked # None}

\* C30: however the steps of concurrent authorized PUT /users/{user_id}
\* requests for one user_id are interleaved, each is answered 201 or 409, at
\* most one of them 201, and a user with that id is stored once one of them
\* is answered; the view body of a PUT for a user that is stored raises 409
\* and leaves the users table as it is.
C30_ConcurrentPut ==
    /\ [](/\ \A n \in PutAnswers :
               /\ InFlight[n].response[1].status \in {201, 409}
               /\ InFlight[n].kwargs.user_id \in DOMAIN users
          /\ \A m, n \in PutAnswers :
               ( /\ InFlight[m].response[1].status = 201
                 /\ InFlight[n].response[1].status = 201
                 /\ InFlight[m].kwargs.user_id = InFlight[n].kwargs.user_id ) => m = n)
    /\ [][ \/ IsSwitch
           \/ (AtView("put_user") /\ kwargs.user_id \in DOMAIN users) =>
                 /\ error' = Some(HTTPException(409))
                 /\ users' = users ]_vars

====
